---- MODULE Spec2Model ----
(***************************************************************************)
(* DomainJaasoos (src/main.go): a two-stage probing pipeline.              *)
(*                                                                         *)
(* main() starts concurrency/2 HTTPS workers and concurrency/2 HTTP        *)
(* workers, two goroutines that close the HTTP queue and the Result        *)
(* channel, and one output goroutine that groups Results by status code.   *)
(* It then reads hostnames from stdin, sends probe targets on the          *)
(* unbuffered channels httpsURLs / httpURLs, closes httpsURLs, waits for   *)
(* the output goroutine and writes the JSON report.                        *)
(*                                                                         *)
(* An unbuffered channel operation is a rendezvous: one action moves the   *)
(* sender past its send statement and the receiver past its receive.       *)
(* A send on a closed channel panics, which aborts the whole process.      *)
(***************************************************************************)
EXTENDS Integers, Sequences, FiniteSets, Bags, TLC

VARIABLES
    input,          \* the lines of stdin
    network,        \* what the probed servers answer: scheme -> outcome of a request
    concurrency,    \* -c
    probes,         \* -p (in the order supplied)
    skipDefault,    \* -s
    preferHTTPS,    \* -prefer-https
    mainPC,         \* position of the main goroutine
    lineNo,         \* index of the next stdin line to scan
    pending,        \* sends the input loop still performs for the current line
    httpsClosed,    \* close(httpsURLs) has run
    httpClosed,     \* close(httpURLs) has run
    outputClosed,   \* close(output) has run
    httpsW,         \* HTTPS workers: i -> [pc, url, statusCode, redirectedURL]
    httpW,          \* HTTP workers:  i -> [pc, url, statusCode, redirectedURL]
    httpsWG,        \* counter of httpsWG
    httpWG,         \* counter of httpWG
    closerHTTP,     \* goroutine of lines 158-161
    closerOutput,   \* goroutine of lines 177-180
    outputPC,       \* output goroutine of lines 169-174 ("done" = outputWG.Done())
    results,        \* map[int][]Result
    report,         \* jsonData handed to the encoder
    reportWritten,  \* the JSON file was created and encoded
    panicked,       \* the process died of "send on closed channel"
    attempts,       \* history: bag of the calls of getStatusAndRedirect
    placed,         \* history: bag of completed queue sends [q, t]
    enqueued        \* history: the sends the input loop has completed, in order

vars == <<input, network, concurrency, probes, skipDefault, preferHTTPS, mainPC, lineNo,
          pending, httpsClosed, httpClosed, outputClosed, httpsW, httpW,
          httpsWG, httpWG, closerHTTP, closerOutput, outputPC, results, report,
          reportWritten, panicked, attempts, placed, enqueued>>

config == <<input, network, concurrency, probes, skipDefault, preferHTTPS>>

-----------------------------------------------------------------------------
(* Bounds of the model *)

MaxInput == 2           \* at most this many stdin lines
MaxConcurrency == 4     \* -c ranges over 0..MaxConcurrency

Hostnames == {"Foo.test"}

ProbeConfigs == {<<>>, <<"HTTPS:8443">>, <<"http:8080">>, <<"noport">>}

\* The outcomes of one request: http.NewRequest fails, client.Do fails, or a
\* response arrives with a status code and a Location header ("" when absent).
StatusCodes == {200, 301}
Locations == {"", "https://r.test/"}
Responses ==
    {[kind |-> k, code |-> 0, location |-> ""] : k \in {"badrequest", "transport"}}
    \cup {[kind |-> "response", code |-> c, location |-> l] :
              c \in StatusCodes, l \in Locations}

-----------------------------------------------------------------------------
(* Strings *)

LowerCaseOf ==
    [c \in {"A","B","C","D","E","F","G","H","I","J","K","L","M","N","O","P","Q",
            "R","S","T","U","V","W","X","Y","Z"} |->
        CASE c = "A" -> "a" [] c = "B" -> "b" [] c = "C" -> "c" [] c = "D" -> "d"
          [] c = "E" -> "e" [] c = "F" -> "f" [] c = "G" -> "g" [] c = "H" -> "h"
          [] c = "I" -> "i" [] c = "J" -> "j" [] c = "K" -> "k" [] c = "L" -> "l"
          [] c = "M" -> "m" [] c = "N" -> "n" [] c = "O" -> "o" [] c = "P" -> "p"
          [] c = "Q" -> "q" [] c = "R" -> "r" [] c = "S" -> "s" [] c = "T" -> "t"
          [] c = "U" -> "u" [] c = "V" -> "v" [] c = "W" -> "w" [] c = "X" -> "x"
          [] c = "Y" -> "y" [] c = "Z" -> "z"]

\* strings.ToLower, character by character
RECURSIVE ToLower(_)
ToLower(s) ==
    IF s = "" THEN ""
    ELSE LET c == SubSeq(s, 1, 1)
         IN  (IF c \in DOMAIN LowerCaseOf THEN LowerCaseOf[c] ELSE c)
                 \o ToLower(SubSeq(s, 2, Len(s)))

\* index of the first sep in s at or after position i, 0 when there is none
RECURSIVE IndexFrom(_, _, _)
IndexFrom(s, sep, i) ==
    IF i > Len(s) THEN 0
    ELSE IF SubSeq(s, i, i) = sep THEN i
    ELSE IndexFrom(s, sep, i + 1)

\* strings.SplitN(s, sep, 2) for a one-character sep
SplitN2(s, sep) ==
    LET k == IndexFrom(s, sep, 1)
    IN  IF k = 0 THEN <<s>>
        ELSE <<SubSeq(s, 1, k - 1), SubSeq(s, k + 1, Len(s))>>

-----------------------------------------------------------------------------
(* The Prober *)

\* Mutant: the Location header is returned whatever the status code
getStatusAndRedirectAnyLocation(resp) ==
    IF resp.kind # "response"
    THEN [statusCode |-> 0, redirectedURL |-> ""]
    ELSE [statusCode |-> resp.code, redirectedURL |-> resp.location]

\* getStatusAndRedirect: what it returns for the outcome resp of the request
getStatusAndRedirect(resp) ==
    IF resp.kind # "response"
    THEN [statusCode |-> 0, redirectedURL |-> ""]
    ELSE [statusCode |-> resp.code,
          redirectedURL |-> IF resp.code >= 300 /\ resp.code < 400
                            THEN resp.location ELSE ""]

-----------------------------------------------------------------------------
(* The input loop's expansion of one hostname *)

xlarge == <<"81", "300", "591", "593", "832", "981", "1010", "1311", "2082",
            "2087", "2095", "2096", "2480", "3000", "3128", "3333", "4243",
            "4567", "4711", "4712", "4993", "5000", "5104", "5108", "5800",
            "6543", "7000", "7396", "7474", "8000", "8001", "8008", "8014",
            "8042", "8069", "8080", "8081", "8088", "8090", "8091", "8118",
            "8123", "8172", "8222", "8243", "8280", "8281", "8333", "8443",
            "8500", "8834", "8880", "8888", "8983", "9000", "9043", "9060",
            "9080", "9090", "9091", "9200", "9443", "9800", "9981", "12443",
            "16080", "18091", "18092", "20720", "28017">>

large == <<"81", "591", "2082", "2087", "2095", "2096", "3000", "8000", "8001",
           "8008", "8080", "8083", "8443", "8834", "8888">>

Target(q, t) == [q |-> q, t |-> t]

\* Mutant: a template sends hostname:port on httpsURLs only
PortTemplateHTTPSOnly(domain, ports) ==
    [k \in 1..Len(ports) |-> Target("https", domain \o ":" \o ports[k])]

\* for every port: hostname:port onto httpsURLs, then onto httpURLs
PortTemplate(domain, ports) ==
    [k \in 1..(2 * Len(ports)) |->
        Target(IF k % 2 = 1 THEN "https" ELSE "http",
               domain \o ":" \o ports[(k + 1) \div 2])]

\* Mutant: the proto is compared with "https" without strings.ToLower
ExpandProbeCaseSensitive(domain, p) ==
    CASE p = "xlarge" -> PortTemplate(domain, xlarge)
      [] p = "large"  -> PortTemplate(domain, large)
      [] OTHER ->
            LET pair == SplitN2(p, ":")
            IN  IF Len(pair) # 2 THEN <<>>
                ELSE IF pair[1] = "https"
                     THEN <<Target("https", domain \o ":" \o pair[2])>>
                     ELSE <<Target("http", domain \o ":" \o pair[2])>>

\* the body of "for _, p := range probes"
ExpandProbe(domain, p) ==
    CASE p = "xlarge" -> PortTemplate(domain, xlarge)
      [] p = "large"  -> PortTemplate(domain, large)
      [] OTHER ->
            LET pair == SplitN2(p, ":")
            IN  IF Len(pair) # 2 THEN <<>>
                ELSE IF ToLower(pair[1]) = "https"
                     THEN <<Target("https", domain \o ":" \o pair[2])>>
                     ELSE <<Target("http", domain \o ":" \o pair[2])>>

RECURSIVE ExpandProbes(_, _)
ExpandProbes(domain, ps) ==
    IF ps = <<>> THEN <<>>
    ELSE ExpandProbe(domain, Head(ps)) \o ExpandProbes(domain, Tail(ps))

\* Mutant: the default case sends the hostname on httpURLs only
ExpandHTTPOnly(domain, ps, skip) ==
    IF (~skip) /\ Len(ps) = 0
    THEN <<Target("http", domain)>>
    ELSE ExpandProbes(domain, ps)

\* Mutant: the default case sends the hostname on httpsURLs only
ExpandDefaultHTTPSOnly(domain, ps, skip) ==
    IF (~skip) /\ Len(ps) = 0
    THEN <<Target("https", domain)>>
    ELSE ExpandProbes(domain, ps)

\* Mutant: the default case is taken whatever --skip-default says
ExpandIgnoringSkip(domain, ps, skip) ==
    IF Len(ps) = 0
    THEN <<Target("https", domain), Target("http", domain)>>
    ELSE ExpandProbes(domain, ps)

\* the channel sends of one iteration of the stdin loop, in program order
Expand(domain, ps, skip) ==
    IF (~skip) /\ Len(ps) = 0
    THEN <<Target("https", domain), Target("http", domain)>>
    ELSE ExpandProbes(domain, ps)

-----------------------------------------------------------------------------
(* State after main() has started every goroutine (line 182) *)

\* Mutant: the pool size is concurrency/2 rounded up
PoolSizeRoundedUp(c) == (c + 1) \div 2

PoolSize(c) == c \div 2

Idle == [pc |-> "recv", url |-> "", statusCode |-> 0, redirectedURL |-> ""]

InputLines == UNION {[1..n -> Hostnames] : n \in 0..MaxInput}

InitPipeline ==
    /\ mainPC = "scan"
    /\ lineNo = 1
    /\ pending = <<>>
    /\ httpsClosed = FALSE
    /\ httpClosed = FALSE
    /\ outputClosed = FALSE
    /\ httpsW = [i \in 1..PoolSize(concurrency) |-> Idle]
    /\ httpW = [i \in 1..PoolSize(concurrency) |-> Idle]
    /\ httpsWG = PoolSize(concurrency)
    /\ httpWG = PoolSize(concurrency)
    /\ closerHTTP = "wait"
    /\ closerOutput = "wait"
    /\ outputPC = "recv"
    /\ results = <<>>
    /\ report = <<>>
    /\ reportWritten = FALSE
    /\ panicked = FALSE
    /\ attempts = EmptyBag
    /\ placed = EmptyBag
    /\ enqueued = <<>>

\* Within one run the servers of a scheme answer every request alike.
Networks == [{"https", "http"} -> Responses]

Init ==
    /\ input \in InputLines
    /\ network \in Networks
    /\ concurrency \in 0..MaxConcurrency
    /\ probes \in ProbeConfigs
    /\ skipDefault \in BOOLEAN
    /\ preferHTTPS \in BOOLEAN
    /\ InitPipeline

-----------------------------------------------------------------------------
(* Helpers shared by the actions *)

Running == ~panicked

Closed(q) == IF q = "https" THEN httpsClosed ELSE httpClosed

Result(url, w) ==
    [URL |-> url, StatusCode |-> w.statusCode, RedirectedURL |-> w.redirectedURL]

\* Mutant: the Result is put at the front of its bucket
CollectAtFront(rs, res) ==
    IF res.StatusCode \in DOMAIN rs
    THEN [rs EXCEPT ![res.StatusCode] = <<res>> \o @]
    ELSE rs @@ (res.StatusCode :> <<res>>)

\* results[res.StatusCode] = append(results[res.StatusCode], res)
Collect(rs, res) ==
    IF res.StatusCode \in DOMAIN rs
    THEN [rs EXCEPT ![res.StatusCode] = Append(@, res)]
    ELSE rs @@ (res.StatusCode :> <<res>>)

\* the worker's state once getStatusAndRedirect has returned r
Probed(w, r) ==
    [w EXCEPT !.statusCode = r.statusCode, !.redirectedURL = r.redirectedURL]

\* history record of one call of getStatusAndRedirect on scheme://target
Attempt(scheme, target, r) ==
    [scheme |-> scheme, target |-> target, url |-> scheme \o "://" \o target,
     statusCode |-> r.statusCode, redirectedURL |-> r.redirectedURL]

\* the input loop after its current send has completed
MainSent ==
    /\ pending' = Tail(pending)
    /\ mainPC' = IF Tail(pending) = <<>> THEN "scan" ELSE "send"
    /\ lineNo' = lineNo
    /\ enqueued' = Append(enqueued, Head(pending))

\* some goroutine is at a send statement whose channel is closed
SendingOnClosed ==
    \/ mainPC = "send" /\ Closed(Head(pending).q)
    \/ \E i \in DOMAIN httpsW :
          \/ httpsW[i].pc = "emit" /\ outputClosed
          \/ httpsW[i].pc = "forward" /\ httpClosed
    \/ \E j \in DOMAIN httpW : httpW[j].pc = "emit" /\ outputClosed

-----------------------------------------------------------------------------
(* The input loop and the end of main() *)

\* sc.Scan() yields a line; its sends are lined up in program order
MainScan ==
    /\ Running
    /\ mainPC = "scan"
    /\ lineNo <= Len(input)
    /\ LET domain == ToLower(input[lineNo])
           sends == Expand(domain, probes, skipDefault)
       IN  /\ pending' = sends
           /\ mainPC' = IF sends = <<>> THEN "scan" ELSE "send"
    /\ lineNo' = lineNo + 1
    /\ UNCHANGED <<config, httpsClosed, httpClosed, outputClosed, httpsW, httpW,
                   httpsWG, httpWG, closerHTTP, closerOutput, outputPC, results,
                   report, reportWritten, panicked, attempts, placed, enqueued>>

\* sc.Scan() returns false
MainEOF ==
    /\ Running
    /\ mainPC = "scan"
    /\ lineNo > Len(input)
    /\ mainPC' = "close"
    /\ UNCHANGED <<config, lineNo, pending, httpsClosed, httpClosed, outputClosed,
                   httpsW, httpW, httpsWG, httpWG, closerHTTP, closerOutput,
                   outputPC, results, report, reportWritten, panicked, attempts,
                   placed, enqueued>>

\* close(httpsURLs)
MainCloseHTTPS ==
    /\ Running
    /\ mainPC = "close"
    /\ httpsClosed' = TRUE
    /\ mainPC' = "wait"
    /\ UNCHANGED <<config, lineNo, pending, httpClosed, outputClosed, httpsW,
                   httpW, httpsWG, httpWG, closerHTTP, closerOutput, outputPC,
                   results, report, reportWritten, panicked, attempts, placed, enqueued>>

\* Mutant: main goes on to the report without outputWG.Wait()
MainNoWait ==
    /\ Running
    /\ mainPC = "wait"
    /\ mainPC' = "write"
    /\ UNCHANGED <<config, lineNo, pending, httpsClosed, httpClosed, outputClosed,
                   httpsW, httpW, httpsWG, httpWG, closerHTTP, closerOutput,
                   outputPC, results, report, reportWritten, panicked, attempts,
                   placed, enqueued>>

\* outputWG.Wait() returns
MainWait ==
    /\ Running
    /\ mainPC = "wait"
    /\ outputPC = "done"
    /\ mainPC' = "write"
    /\ UNCHANGED <<config, lineNo, pending, httpsClosed, httpClosed, outputClosed,
                   httpsW, httpW, httpsWG, httpWG, closerHTTP, closerOutput,
                   outputPC, results, report, reportWritten, panicked, attempts,
                   placed, enqueued>>

\* Mutant: the key is the class of the status code ("2xx", "3xx")
CodeStrClass(statusCode) == ToString(statusCode \div 100) \o "xx"

\* fmt.Sprintf("%d", statusCode)
CodeStr(statusCode) == ToString(statusCode)

\* the entries of one status code, in the order of resList
Entries(statusCode, resList) ==
    [k \in 1..Len(resList) |->
        IF statusCode >= 300 /\ statusCode < 400
        THEN [url |-> resList[k].URL, redirected_url |-> resList[k].RedirectedURL]
        ELSE resList[k].URL]

\* jsonData of writeJSONFile
JSONData(rs) ==
    [s \in {CodeStr(c) : c \in DOMAIN rs} |->
        LET c == CHOOSE c \in DOMAIN rs : CodeStr(c) = s
        IN  Entries(c, rs[c])]

\* writeJSONFile(jsonOutputFilePath, results); the file may fail to be created
MainWrite ==
    /\ Running
    /\ mainPC = "write"
    /\ report' = JSONData(results)
    /\ reportWritten' \in BOOLEAN
    /\ mainPC' = "done"
    /\ UNCHANGED <<config, lineNo, pending, httpsClosed, httpClosed, outputClosed,
                   httpsW, httpW, httpsWG, httpWG, closerHTTP, closerOutput,
                   outputPC, results, panicked, attempts, placed, enqueued>>

-----------------------------------------------------------------------------
(* HTTPS workers *)

\* "for url := range httpsURLs" receives what the input loop sends
HTTPSReceive(i) ==
    /\ Running
    /\ httpsW[i].pc = "recv"
    /\ ~httpsClosed
    /\ mainPC = "send"
    /\ Head(pending).q = "https"
    /\ httpsW' = [httpsW EXCEPT ![i] = [Idle EXCEPT !.pc = "probe",
                                                   !.url = Head(pending).t]]
    /\ placed' = placed (+) SetToBag({Head(pending)})
    /\ MainSent
    /\ UNCHANGED <<config, httpsClosed, httpClosed, outputClosed, httpW, httpsWG,
                   httpWG, closerHTTP, closerOutput, outputPC, results, report,
                   reportWritten, panicked, attempts>>

\* statusCode, redirectedURL := getStatusAndRedirect(client, "https://"+url, method)
HTTPSProbe(i) ==
    /\ Running
    /\ httpsW[i].pc = "probe"
    /\ \E resp \in {network["https"]} :
          LET r == getStatusAndRedirect(resp)
          IN  /\ httpsW' = [httpsW EXCEPT ![i] =
                     [Probed(@, r) EXCEPT !.pc = IF r.statusCode # 0
                                                 THEN "emit" ELSE "forward"]]
              /\ attempts' = attempts
                     (+) SetToBag({Attempt("https", httpsW[i].url, r)})
    /\ UNCHANGED <<config, mainPC, lineNo, pending, httpsClosed, httpClosed,
                   outputClosed, httpW, httpsWG, httpWG, closerHTTP, closerOutput,
                   outputPC, results, report, reportWritten, panicked, placed, enqueued>>

\* Mutant: the worker forwards after its Result whatever --prefer-https says
HTTPSEmitAlwaysForward(i) ==
    /\ Running
    /\ httpsW[i].pc = "emit"
    /\ ~outputClosed
    /\ outputPC = "recv"
    /\ results' = Collect(results, Result("https://" \o httpsW[i].url, httpsW[i]))
    /\ httpsW' = [httpsW EXCEPT ![i].pc = "forward"]
    /\ UNCHANGED <<config, mainPC, lineNo, pending, httpsClosed, httpClosed,
                   outputClosed, httpW, httpsWG, httpWG, closerHTTP, closerOutput,
                   outputPC, report, reportWritten, panicked, attempts, placed, enqueued>>

\* output <- Result{...}, received and appended by the output goroutine
HTTPSEmit(i) ==
    /\ Running
    /\ httpsW[i].pc = "emit"
    /\ ~outputClosed
    /\ outputPC = "recv"
    /\ results' = Collect(results, Result("https://" \o httpsW[i].url, httpsW[i]))
    /\ httpsW' = [httpsW EXCEPT ![i].pc = IF preferHTTPS THEN "recv" ELSE "forward"]
    /\ UNCHANGED <<config, mainPC, lineNo, pending, httpsClosed, httpClosed,
                   outputClosed, httpW, httpsWG, httpWG, closerHTTP, closerOutput,
                   outputPC, report, reportWritten, panicked, attempts, placed, enqueued>>

\* httpURLs <- url, received by HTTP worker j
HTTPSForward(i, j) ==
    /\ Running
    /\ httpsW[i].pc = "forward"
    /\ ~httpClosed
    /\ httpW[j].pc = "recv"
    /\ httpW' = [httpW EXCEPT ![j] = [Idle EXCEPT !.pc = "probe",
                                                 !.url = httpsW[i].url]]
    /\ httpsW' = [httpsW EXCEPT ![i].pc = "recv"]
    /\ placed' = placed (+) SetToBag({Target("http", httpsW[i].url)})
    /\ UNCHANGED <<config, mainPC, lineNo, pending, httpsClosed, httpClosed,
                   outputClosed, httpsWG, httpWG, closerHTTP, closerOutput,
                   outputPC, results, report, reportWritten, panicked, attempts, enqueued>>

\* the range loop sees httpsURLs closed; httpsWG.Done()
HTTPSExit(i) ==
    /\ Running
    /\ httpsW[i].pc = "recv"
    /\ httpsClosed
    /\ httpsW' = [httpsW EXCEPT ![i].pc = "done"]
    /\ httpsWG' = httpsWG - 1
    /\ UNCHANGED <<config, mainPC, lineNo, pending, httpsClosed, httpClosed,
                   outputClosed, httpW, httpWG, closerHTTP, closerOutput, outputPC,
                   results, report, reportWritten, panicked, attempts, placed, enqueued>>

-----------------------------------------------------------------------------
(* HTTP workers *)

\* "for url := range httpURLs" receives what the input loop sends
HTTPReceive(j) ==
    /\ Running
    /\ httpW[j].pc = "recv"
    /\ ~httpClosed
    /\ mainPC = "send"
    /\ Head(pending).q = "http"
    /\ httpW' = [httpW EXCEPT ![j] = [Idle EXCEPT !.pc = "probe",
                                                 !.url = Head(pending).t]]
    /\ placed' = placed (+) SetToBag({Head(pending)})
    /\ MainSent
    /\ UNCHANGED <<config, httpsClosed, httpClosed, outputClosed, httpsW, httpsWG,
                   httpWG, closerHTTP, closerOutput, outputPC, results, report,
                   reportWritten, panicked, attempts>>

\* Mutant: the Result is sent without the test "statusCode != 0"
HTTPProbeNoCheck(j) ==
    /\ Running
    /\ httpW[j].pc = "probe"
    /\ \E resp \in {network["http"]} :
          LET r == getStatusAndRedirect(resp)
          IN  /\ httpW' = [httpW EXCEPT ![j] = [Probed(@, r) EXCEPT !.pc = "emit"]]
              /\ attempts' = attempts
                     (+) SetToBag({Attempt("http", httpW[j].url, r)})
    /\ UNCHANGED <<config, mainPC, lineNo, pending, httpsClosed, httpClosed,
                   outputClosed, httpsW, httpsWG, httpWG, closerHTTP, closerOutput,
                   outputPC, results, report, reportWritten, panicked, placed, enqueued>>

\* Mutant: a failed probe ends the worker
HTTPProbeExitOnFailure(j) ==
    /\ Running
    /\ httpW[j].pc = "probe"
    /\ \E resp \in {network["http"]} :
          LET r == getStatusAndRedirect(resp)
          IN  /\ httpW' = [httpW EXCEPT ![j] =
                     [Probed(@, r) EXCEPT !.pc = IF r.statusCode # 0
                                                 THEN "emit" ELSE "done"]]
              /\ httpWG' = IF r.statusCode # 0 THEN httpWG ELSE httpWG - 1
              /\ attempts' = attempts
                     (+) SetToBag({Attempt("http", httpW[j].url, r)})
    /\ UNCHANGED <<config, mainPC, lineNo, pending, httpsClosed, httpClosed,
                   outputClosed, httpsW, httpsWG, closerHTTP, closerOutput,
                   outputPC, results, report, reportWritten, panicked, placed, enqueued>>

\* statusCode, redirectedURL := getStatusAndRedirect(client, "http://"+url, method)
HTTPProbe(j) ==
    /\ Running
    /\ httpW[j].pc = "probe"
    /\ \E resp \in {network["http"]} :
          LET r == getStatusAndRedirect(resp)
          IN  /\ httpW' = [httpW EXCEPT ![j] =
                     [Probed(@, r) EXCEPT !.pc = IF r.statusCode # 0
                                                 THEN "emit" ELSE "recv"]]
              /\ attempts' = attempts
                     (+) SetToBag({Attempt("http", httpW[j].url, r)})
    /\ UNCHANGED <<config, mainPC, lineNo, pending, httpsClosed, httpClosed,
                   outputClosed, httpsW, httpsWG, httpWG, closerHTTP, closerOutput,
                   outputPC, results, report, reportWritten, panicked, placed, enqueued>>

\* output <- Result{...}; continue
HTTPEmit(j) ==
    /\ Running
    /\ httpW[j].pc = "emit"
    /\ ~outputClosed
    /\ outputPC = "recv"
    /\ results' = Collect(results, Result("http://" \o httpW[j].url, httpW[j]))
    /\ httpW' = [httpW EXCEPT ![j].pc = "recv"]
    /\ UNCHANGED <<config, mainPC, lineNo, pending, httpsClosed, httpClosed,
                   outputClosed, httpsW, httpsWG, httpWG, closerHTTP, closerOutput,
                   outputPC, report, reportWritten, panicked, attempts, placed, enqueued>>

\* Mutant: the worker leaves its loop without httpWG.Done()
HTTPExitNoDone(j) ==
    /\ Running
    /\ httpW[j].pc = "recv"
    /\ httpClosed
    /\ httpW' = [httpW EXCEPT ![j].pc = "done"]
    /\ UNCHANGED <<config, mainPC, lineNo, pending, httpsClosed, httpClosed,
                   outputClosed, httpsW, httpsWG, httpWG, closerHTTP, closerOutput,
                   outputPC, results, report, reportWritten, panicked, attempts,
                   placed, enqueued>>

\* Mutant: the worker ranges over the wrong channel and leaves when httpsURLs closes
HTTPExitEarly(j) ==
    /\ Running
    /\ httpW[j].pc = "recv"
    /\ httpsClosed
    /\ httpW' = [httpW EXCEPT ![j].pc = "done"]
    /\ httpWG' = httpWG - 1
    /\ UNCHANGED <<config, mainPC, lineNo, pending, httpsClosed, httpClosed,
                   outputClosed, httpsW, httpsWG, closerHTTP, closerOutput, outputPC,
                   results, report, reportWritten, panicked, attempts, placed, enqueued>>

\* the range loop sees httpURLs closed; httpWG.Done()
HTTPExit(j) ==
    /\ Running
    /\ httpW[j].pc = "recv"
    /\ httpClosed
    /\ httpW' = [httpW EXCEPT ![j].pc = "done"]
    /\ httpWG' = httpWG - 1
    /\ UNCHANGED <<config, mainPC, lineNo, pending, httpsClosed, httpClosed,
                   outputClosed, httpsW, httpsWG, closerHTTP, closerOutput, outputPC,
                   results, report, reportWritten, panicked, attempts, placed, enqueued>>

-----------------------------------------------------------------------------
(* The closing goroutines and the output goroutine *)

\* Mutant: close(httpURLs) without httpsWG.Wait()
CloseHTTPQueueNoWait ==
    /\ Running
    /\ closerHTTP = "wait"
    /\ httpClosed' = TRUE
    /\ closerHTTP' = "done"
    /\ UNCHANGED <<config, mainPC, lineNo, pending, httpsClosed, outputClosed,
                   httpsW, httpW, httpsWG, httpWG, closerOutput, outputPC, results,
                   report, reportWritten, panicked, attempts, placed, enqueued>>

\* httpsWG.Wait(); close(httpURLs)
CloseHTTPQueue ==
    /\ Running
    /\ closerHTTP = "wait"
    /\ httpsWG = 0
    /\ httpClosed' = TRUE
    /\ closerHTTP' = "done"
    /\ UNCHANGED <<config, mainPC, lineNo, pending, httpsClosed, outputClosed,
                   httpsW, httpW, httpsWG, httpWG, closerOutput, outputPC, results,
                   report, reportWritten, panicked, attempts, placed, enqueued>>

\* Mutant: close(output) without httpWG.Wait()
CloseOutputNoWait ==
    /\ Running
    /\ closerOutput = "wait"
    /\ outputClosed' = TRUE
    /\ closerOutput' = "done"
    /\ UNCHANGED <<config, mainPC, lineNo, pending, httpsClosed, httpClosed, httpsW,
                   httpW, httpsWG, httpWG, closerHTTP, outputPC, results, report,
                   reportWritten, panicked, attempts, placed, enqueued>>

\* Mutant: the goroutine waits for the HTTPS pool instead of the HTTP pool
CloseOutputWrongWG ==
    /\ Running
    /\ closerOutput = "wait"
    /\ httpsWG = 0
    /\ outputClosed' = TRUE
    /\ closerOutput' = "done"
    /\ UNCHANGED <<config, mainPC, lineNo, pending, httpsClosed, httpClosed, httpsW,
                   httpW, httpsWG, httpWG, closerHTTP, outputPC, results, report,
                   reportWritten, panicked, attempts, placed, enqueued>>

\* httpWG.Wait(); close(output)
CloseOutput ==
    /\ Running
    /\ closerOutput = "wait"
    /\ httpWG = 0
    /\ outputClosed' = TRUE
    /\ closerOutput' = "done"
    /\ UNCHANGED <<config, mainPC, lineNo, pending, httpsClosed, httpClosed, httpsW,
                   httpW, httpsWG, httpWG, closerHTTP, outputPC, results, report,
                   reportWritten, panicked, attempts, placed, enqueued>>

\* "for res := range output" sees output closed; outputWG.Done()
OutputDone ==
    /\ Running
    /\ outputPC = "recv"
    /\ outputClosed
    /\ outputPC' = "done"
    /\ UNCHANGED <<config, mainPC, lineNo, pending, httpsClosed, httpClosed,
                   outputClosed, httpsW, httpW, httpsWG, httpWG, closerHTTP,
                   closerOutput, results, report, reportWritten, panicked, attempts,
                   placed, enqueued>>

\* a send on a closed channel panics and the process dies
PanicSendOnClosed ==
    /\ Running
    /\ SendingOnClosed
    /\ panicked' = TRUE
    /\ UNCHANGED <<config, mainPC, lineNo, pending, httpsClosed, httpClosed,
                   outputClosed, httpsW, httpW, httpsWG, httpWG, closerHTTP,
                   closerOutput, outputPC, results, report, reportWritten, attempts,
                   placed, enqueued>>

-----------------------------------------------------------------------------

Next ==
    \/ MainScan
    \/ MainEOF
    \/ MainCloseHTTPS
    \/ MainWait
    \/ MainWrite
    \/ \E i \in DOMAIN httpsW : HTTPSReceive(i)
    \/ \E i \in DOMAIN httpsW : HTTPSProbe(i)
    \/ \E i \in DOMAIN httpsW : HTTPSEmit(i)
    \/ \E i \in DOMAIN httpsW : \E j \in DOMAIN httpW : HTTPSForward(i, j)
    \/ \E i \in DOMAIN httpsW : HTTPSExit(i)
    \/ \E j \in DOMAIN httpW : HTTPReceive(j)
    \/ \E j \in DOMAIN httpW : HTTPProbe(j)
    \/ \E j \in DOMAIN httpW : HTTPEmit(j)
    \/ \E j \in DOMAIN httpW : HTTPExit(j)
    \/ CloseHTTPQueue
    \/ CloseOutput
    \/ OutputDone
    \/ PanicSendOnClosed

Spec == Init /\ [][Next]_vars

\* Runs for the liveness properties. The control flow of the pipeline reads a
\* probe's outcome only through "statusCode != 0", so each scheme either fails
\* or answers; every other input ranges as in Init.
LiveNetworks ==
    [{"https", "http"} ->
        {[kind |-> "transport", code |-> 0, location |-> ""],
         [kind |-> "response", code |-> 301, location |-> "https://r.test/"]}]

FairInit ==
    /\ input \in InputLines
    /\ network \in LiveNetworks
    /\ concurrency \in 0..MaxConcurrency
    /\ probes \in ProbeConfigs
    /\ skipDefault \in BOOLEAN
    /\ preferHTTPS \in BOOLEAN
    /\ InitPipeline

\* The Go scheduler keeps running some goroutine that can take a step.
FairSpec == FairInit /\ [][Next]_vars /\ WF_vars(Next)

\* Runs over the richer probe configurations: the port templates, a spec with a
\* second colon, several specs at once. A template sends 30 or 140 targets per
\* line, so these runs have fewer lines and workers.
MaxTemplateInput == 1         \* at most this many stdin lines
MaxTemplateConcurrency == 2   \* -c ranges over 0..MaxTemplateConcurrency

TemplateConfigs ==
    {<<"large">>, <<"large", "large">>, <<"xlarge">>, <<"http:8080", "large">>,
     <<"noport">>, <<"Https:8443">>, <<"ftp:21:22">>, <<"noport", "http:8080">>,
     <<"https:8443", "noport", "http:8080">>}

HasTemplate(ps) == \E k \in 1..Len(ps) : ps[k] \in {"large", "xlarge"}

\* With a template among the specs the HTTP servers are down: what the input
\* loop sends does not depend on the answers, and the ResultSet stays small.
TemplateNetworks(ps) ==
    IF HasTemplate(ps)
    THEN {n \in LiveNetworks : n["http"].kind = "transport"}
    ELSE LiveNetworks

TemplateInit ==
    /\ input \in UNION {[1..n -> Hostnames] : n \in 0..MaxTemplateInput}
    /\ concurrency \in 0..MaxTemplateConcurrency
    /\ probes \in TemplateConfigs
    /\ network \in TemplateNetworks(probes)
    /\ skipDefault \in BOOLEAN
    /\ preferHTTPS \in BOOLEAN
    /\ InitPipeline

TemplateSpec == TemplateInit /\ [][Next]_vars

-----------------------------------------------------------------------------
(* Vocabulary of the properties *)

RECURSIVE SumCopies(_, _)
SumCopies(S, B) ==
    IF S = {} THEN 0
    ELSE LET x == CHOOSE y \in S : TRUE
         IN  CopiesIn(x, B) + SumCopies(S \ {x}, B)

\* number of probe calls made so far on url
AttemptsOnURL(url) ==
    SumCopies({a \in BagToSet(attempts) : a.url = url}, attempts)

\* number of probe calls made so far by the stage of queue q on target t
AttemptsOn(q, t) ==
    SumCopies({a \in BagToSet(attempts) : a.scheme = q /\ a.target = t}, attempts)

ResultSlots == UNION {{<<c, k>> : k \in 1..Len(results[c])} : c \in DOMAIN results}

AllResults == {results[s[1]][s[2]] : s \in ResultSlots}

\* number of entries of the ResultSet equal to r
ResultCount(r) == Cardinality({s \in ResultSlots : results[s[1]][s[2]] = r})

\* the Result a worker sends for a probe call that returned a non-zero status
ResultOf(a) ==
    [URL |-> a.url, StatusCode |-> a.statusCode, RedirectedURL |-> a.redirectedURL]

Emitted == {a \in BagToSet(attempts) : a.statusCode # 0}

Stage(q) == IF q = "https" THEN httpsW ELSE httpW

StageDone(q) == \A i \in DOMAIN Stage(q) : Stage(q)[i].pc = "done"

\* workers of queue q that hold target t and have not yet probed it
InFlight(q, t) ==
    Cardinality({i \in DOMAIN Stage(q) : Stage(q)[i].pc = "probe" /\ Stage(q)[i].url = t})

\* some goroutine is at a send statement on queue q
SenderOn(q) ==
    \/ mainPC = "send" /\ Head(pending).q = q
    \/ q = "http" /\ \E i \in DOMAIN httpsW : httpsW[i].pc = "forward"

RECURSIVE SendsOfLines(_)
SendsOfLines(k) ==
    IF k = 0 THEN <<>>
    ELSE SendsOfLines(k - 1) \o Expand(ToLower(input[k]), probes, skipDefault)

\* every send the input loop performs for the whole of stdin
AllSends == SendsOfLines(Len(input))

Occurrences(seq, x) == Cardinality({k \in 1..Len(seq) : seq[k] = x})

DefaultProbing == (~skipDefault) /\ Len(probes) = 0

Is3xx(code) == code >= 300 /\ code < 400

Finished ==
    /\ mainPC = "done"
    /\ httpsClosed /\ httpClosed /\ outputClosed
    /\ StageDone("https") /\ StageDone("http")
    /\ closerHTTP = "done" /\ closerOutput = "done"
    /\ outputPC = "done"

-----------------------------------------------------------------------------
(* Properties *)

\* C1: shutdown ordering. The HTTP queue is closed only once every HTTPS worker
\* has finished, an HTTPS worker finishes only once the HTTPS queue is closed,
\* the Result channel is closed only once every HTTP worker has finished, and
\* the HTTPS queue is closed only once the input loop has read all of stdin and
\* completed every send of every hostname.
C1_ShutdownOrdering ==
    /\ httpClosed => StageDone("https")
    /\ \A i \in DOMAIN httpsW : httpsW[i].pc = "done" => httpsClosed
    /\ outputClosed => StageDone("http")
    /\ httpsClosed =>
          /\ mainPC \in {"wait", "write", "done"}
          /\ lineNo > Len(input)
          /\ pending = <<>>
          /\ LET sends == AllSends
             IN  \A x \in {sends[k] : k \in 1..Len(sends)} :
                     CopiesIn(x, placed) >= Occurrences(sends, x)

C1_Witness ==
    /\ outputClosed
    /\ PoolSize(concurrency) >= 2
    /\ Len(input) >= 2
    /\ DOMAIN results # {}

\* C2: no goroutine is ever at a send statement on a channel that is closed,
\* for every concurrency value (0 and 1 included) and every probe configuration.
C2_NoSendOnClosed == ~SendingOnClosed

\* C3: with concurrency >= 2 and a scheduler that keeps running goroutines,
\* every run ends: all three channels closed, every worker and both closing
\* goroutines finished, the output goroutine done and main past the report.
C3_Terminates == (concurrency >= 2) ~> Finished

C3_Witness ==
    /\ Finished
    /\ concurrency >= 2
    /\ Len(input) >= 2
    /\ BagCardinality(attempts) >= 3

\* C4: once the output goroutine has signalled completion, the ResultSet holds
\* exactly one entry per probe call that returned a non-zero status, nothing
\* else, and every entry sits in the bucket of its own StatusCode.
C4_NoResultLost ==
    outputPC = "done" =>
        /\ \A a \in Emitted : ResultCount(ResultOf(a)) = CopiesIn(a, attempts)
        /\ \A r \in AllResults : \E a \in Emitted : ResultOf(a) = r
        /\ \A s \in ResultSlots : results[s[1]][s[2]].StatusCode = s[1]

C4_Witness ==
    /\ outputPC = "done"
    /\ Cardinality(DOMAIN results) >= 2
    /\ Cardinality(ResultSlots) >= 3

\* C5: every target whose send on a queue completed is held by one worker of
\* that queue or has been probed by it, exactly once per send; and once the
\* workers of a queue have seen it closed and left, nothing of that queue is
\* held unprobed and no goroutine is still trying to send on it.
C5_ConsumedExactlyOnce ==
    \A q \in {"https", "http"} :
        LET targets == {x.t : x \in {y \in BagToSet(placed) : y.q = q}}
                           \cup {a.target : a \in {b \in BagToSet(attempts) : b.scheme = q}}
        IN  /\ \A t \in targets :
                  CopiesIn(Target(q, t), placed) = AttemptsOn(q, t) + InFlight(q, t)
            /\ (DOMAIN Stage(q) # {} /\ StageDone(q)) =>
                  /\ Closed(q)
                  /\ ~SenderOn(q)
                  /\ \A t \in targets : CopiesIn(Target(q, t), placed) = AttemptsOn(q, t)

C5_Witness ==
    /\ StageDone("http")
    /\ PoolSize(concurrency) >= 2
    /\ \E x \in BagToSet(placed) : x.q = "http" /\ CopiesIn(x, placed) >= 3

\* C6 as stated: whenever the output goroutine has signalled completion, every
\* HTTPS worker, every HTTP worker and both closing goroutines have terminated.
C6_NoGoroutineLeft ==
    outputPC = "done" =>
        /\ StageDone("https")
        /\ StageDone("http")
        /\ closerHTTP = "done"
        /\ closerOutput = "done"

\* C6 amended: whenever the output goroutine has signalled completion, every
\* HTTPS worker, every HTTP worker and the goroutine closing the Result channel
\* have terminated, and so has the goroutine closing the HTTP queue when
\* concurrency >= 2.
C6_NoWorkerLeft ==
    outputPC = "done" =>
        /\ StageDone("https")
        /\ StageDone("http")
        /\ closerOutput = "done"
        /\ concurrency >= 2 => closerHTTP = "done"

C6_Witness ==
    /\ outputPC = "done"
    /\ mainPC = "write"
    /\ PoolSize(concurrency) >= 2
    /\ BagCardinality(attempts) >= 2

\* C7: with preferHTTPS set, a target is probed over HTTP only if its HTTPS
\* probe yielded no Result (status 0).
C7_HTTPOnlyAfterHTTPSFailure ==
    preferHTTPS =>
        \A a \in BagToSet(attempts) : \A b \in BagToSet(attempts) :
            (a.scheme = "http" /\ b.scheme = "https" /\ a.target = b.target)
                => b.statusCode = 0

\* C8: with default probing, preferHTTPS off and concurrency >= 2, every input
\* line's hostname is eventually probed on https://hostname and on
\* http://hostname, whatever the probes return.
BothAttempted ==
    \A k \in 1..Len(input) :
        LET h == ToLower(input[k])
            n == Cardinality({m \in 1..Len(input) : ToLower(input[m]) = h})
        IN  /\ AttemptsOnURL("https://" \o h) >= n
            /\ AttemptsOnURL("http://" \o h) >= n

C8_BothSchemesProbed ==
    (DefaultProbing /\ ~preferHTTPS /\ concurrency >= 2) ~> BothAttempted

C8_Witness ==
    /\ DefaultProbing /\ ~preferHTTPS /\ concurrency >= 2
    /\ Len(input) >= 2
    /\ BothAttempted
    /\ \E a \in BagToSet(attempts) : a.scheme = "https" /\ a.statusCode = 0

\* C9: every Result a worker is sending, and every Result of the ResultSet, has
\* StatusCode > 0.
C9_StatusPositive ==
    /\ \A r \in AllResults : r.StatusCode > 0
    /\ \A i \in DOMAIN httpsW : httpsW[i].pc = "emit" => httpsW[i].statusCode > 0
    /\ \A j \in DOMAIN httpW : httpW[j].pc = "emit" => httpW[j].statusCode > 0

C9_Witness ==
    /\ outputPC = "done"
    /\ \E a \in BagToSet(attempts) : a.scheme = "http" /\ a.statusCode = 0
    /\ AllResults # {}

\* C10 as stated: a Result of the ResultSet has a non-empty RedirectedURL if and
\* only if 300 <= StatusCode < 400.
C10_RedirectIff3xx ==
    \A r \in AllResults : (r.RedirectedURL # "") <=> Is3xx(r.StatusCode)

\* C10 amended: a Result of the ResultSet has a non-empty RedirectedURL only if
\* 300 <= StatusCode < 400, and a 3xx Result carries the Location header of the
\* response, which is empty when the header is absent or empty.
C10_RedirectOnly3xx ==
    \A r \in AllResults :
        /\ (r.RedirectedURL # "") => Is3xx(r.StatusCode)
        /\ Is3xx(r.StatusCode) =>
              r.RedirectedURL = network[SplitN2(r.URL, ":")[1]].location

C10_Witness ==
    /\ \E r \in AllResults : Is3xx(r.StatusCode) /\ r.RedirectedURL = ""
    /\ \E r \in AllResults : Is3xx(r.StatusCode) /\ r.RedirectedURL # ""

-----------------------------------------------------------------------------
(* Vocabulary of the expansion properties *)

\* the lower-cased form of each hostname stdin may hold
LowerCased == [h \in Hostnames |-> ToLower(h)]

IsPrefix(a, b) == Len(a) <= Len(b) /\ a = SubSeq(b, 1, Len(a))

CountOn(seq, q) == Cardinality({k \in 1..Len(seq) : seq[k].q = q})

HasColon(p) == \E k \in 1..Len(p) : SubSeq(p, k, k) = ":"

FirstColon(p) ==
    CHOOSE k \in 1..Len(p) :
        /\ SubSeq(p, k, k) = ":"
        /\ \A m \in 1..(k - 1) : SubSeq(p, m, m) # ":"

\* w is "https" up to the case of its letters
IsHTTPSWord(w) ==
    /\ Len(w) = 5
    /\ SubSeq(w, 1, 1) \in {"h", "H"}
    /\ SubSeq(w, 2, 2) \in {"t", "T"}
    /\ SubSeq(w, 3, 3) \in {"t", "T"}
    /\ SubSeq(w, 4, 4) \in {"p", "P"}
    /\ SubSeq(w, 5, 5) \in {"s", "S"}

\* what one proto:port spec is said to enqueue for hostname h
ClaimedOfSpec(h, p) ==
    IF ~HasColon(p) THEN <<>>
    ELSE LET k == FirstColon(p)
             proto == SubSeq(p, 1, k - 1)
             port == SubSeq(p, k + 1, Len(p))
         IN  <<[q |-> IF IsHTTPSWord(proto) THEN "https" ELSE "http",
                t |-> h \o ":" \o port]>>

\* what a port template is said to enqueue for hostname h, from its port k on
RECURSIVE ClaimedOfPorts(_, _, _)
ClaimedOfPorts(h, ports, k) ==
    IF k > Len(ports) THEN <<>>
    ELSE <<[q |-> "https", t |-> h \o ":" \o ports[k]],
           [q |-> "http", t |-> h \o ":" \o ports[k]]>>
             \o ClaimedOfPorts(h, ports, k + 1)

\* what the specs ps are said to enqueue for hostname h, spec by spec in order
RECURSIVE ClaimedOfSpecs(_, _)
ClaimedOfSpecs(h, ps) ==
    IF ps = <<>> THEN <<>>
    ELSE (CASE Head(ps) = "large"  -> ClaimedOfPorts(h, large, 1)
            [] Head(ps) = "xlarge" -> ClaimedOfPorts(h, xlarge, 1)
            [] OTHER -> ClaimedOfSpec(h, Head(ps)))
           \o ClaimedOfSpecs(h, Tail(ps))

RECURSIVE ClaimedOfLines(_)
ClaimedOfLines(k) ==
    IF k = 0 THEN <<>>
    ELSE ClaimedOfLines(k - 1) \o ClaimedOfSpecs(LowerCased[input[k]], probes)

InputLoopOver == mainPC \in {"close", "wait", "write", "done"}

ExplicitSpecsOnly == Len(probes) >= 1 /\ ~HasTemplate(probes)

NoColonAtAll == \A k \in 1..Len(probes) : ~HasColon(probes[k])

OnlyLarge == Len(probes) >= 1 /\ \A k \in 1..Len(probes) : probes[k] = "large"

-----------------------------------------------------------------------------
(* Expansion properties *)

\* C11: with proto:port specs only, the input loop enqueues, per hostname and
\* per spec in order, nothing for a spec without a colon, hostname:port on the
\* HTTPS queue alone when the part before the first colon is "https" in any
\* case, and hostname:port on the HTTP queue alone otherwise; it never sends
\* anything else, and the run goes on until it has completed: it never panics
\* and never stops early (for every concurrency when no spec has a colon, for
\* concurrency >= 2 otherwise).
C11_ExplicitSpecs ==
    ExplicitSpecsOnly =>
        LET claimed == ClaimedOfLines(Len(input))
        IN  /\ IsPrefix(enqueued, claimed)
            /\ InputLoopOver => enqueued = claimed
            /\ NoColonAtAll => enqueued = <<>>
            /\ (concurrency >= 2 \/ NoColonAtAll) =>
                  /\ ~panicked
                  /\ Finished \/ ENABLED Next

C11_Witness ==
    /\ Finished
    /\ reportWritten
    /\ probes = <<"https:8443", "noport", "http:8080">>
    /\ enqueued = <<[q |-> "https", t |-> "foo.test:8443"],
                    [q |-> "http", t |-> "foo.test:8080"]>>

\* C12: specs are expanded one by one in the order supplied without
\* deduplication; a template enqueues hostname:port on the HTTPS queue and on
\* the HTTP queue for every port of its list, and "large" supplied n times
\* enqueues n times Len(large) targets per line on each queue (twice as many
\* for two as for one).
C12_NoDeduplication ==
    HasTemplate(probes) =>
        LET claimed == ClaimedOfLines(Len(input))
        IN  /\ IsPrefix(enqueued, claimed)
            /\ InputLoopOver =>
                  /\ enqueued = claimed
                  /\ OnlyLarge => \A q \in {"https", "http"} :
                        CountOn(enqueued, q) = Len(probes) * Len(large) * Len(input)

C12_Witness ==
    /\ Finished
    /\ probes = <<"large", "large">>
    /\ Len(input) >= 1
    /\ CountOn(enqueued, "https") = 2 * Len(large)
    /\ CountOn(enqueued, "http") = 2 * Len(large)

-----------------------------------------------------------------------------
(* Report properties *)

Digits == <<"0", "1", "2", "3", "4", "5", "6", "7", "8", "9">>

\* the decimal numeral of a natural number
RECURSIVE Decimal(_)
Decimal(n) ==
    IF n < 10 THEN Digits[n + 1]
    ELSE Decimal(n \div 10) \o Digits[(n % 10) + 1]

\* C13: the keys of the report are exactly the decimal numerals of the status
\* codes present in the ResultSet; the array under a key has as many entries
\* as the ResultSet has Results with that code; each entry is an object with
\* url and redirected_url when the code is in [300, 400) and the bare URL
\* string otherwise.
C13_ReportStructure ==
    mainPC = "done" =>
        /\ DOMAIN report = {Decimal(c) : c \in DOMAIN results}
        /\ \A c \in DOMAIN results :
              LET arr == report[Decimal(c)]
                  res == results[c]
              IN  /\ Len(arr) = Len(res)
                  /\ \A k \in 1..Len(arr) :
                        IF c >= 300 /\ c < 400
                        THEN /\ DOMAIN arr[k] = {"url", "redirected_url"}
                             /\ arr[k].url = res[k].URL
                             /\ arr[k].redirected_url = res[k].RedirectedURL
                        ELSE arr[k] = res[k].URL

C13_Witness ==
    /\ mainPC = "done"
    /\ DOMAIN report = {"200", "301"}
    /\ Len(report["200"]) >= 2
    /\ Len(report["301"]) >= 2
    /\ report["200"][1] = "https://foo.test"
    /\ report["301"][1].url = "http://foo.test"

-----------------------------------------------------------------------------
(* Worker step properties *)

\* number of entries of the ResultSet rs equal to r
CountIn(rs, r) ==
    Cardinality(UNION {{<<c, k>> : k \in {m \in 1..Len(rs[c]) : rs[c][m] = r}} :
                       c \in DOMAIN rs})

\* the moves of an HTTPS worker through its loop body
HTTPSWorkerMoves ==
    {<<"recv", "probe">>, <<"recv", "done">>, <<"probe", "emit">>,
     <<"probe", "forward">>, <<"emit", "recv">>, <<"emit", "forward">>,
     <<"forward", "recv">>}

\* one step of HTTPS worker i, as the state pair (unprimed, primed)
HTTPSWorkerStep(i) ==
    LET w == httpsW[i]
        v == httpsW'[i]
        res == [URL |-> "https://" \o w.url, StatusCode |-> w.statusCode,
                RedirectedURL |-> w.redirectedURL]
        fwd == [q |-> "http", t |-> w.url]
    IN  v # w =>
          /\ <<w.pc, v.pc>> \in HTTPSWorkerMoves
          /\ w.pc = "probe" =>
                /\ v.url = w.url
                /\ v.pc = "emit" <=> v.statusCode # 0
                /\ results' = results /\ placed' = placed
          /\ w.pc = "emit" =>
                /\ w.statusCode # 0
                /\ v.url = w.url
                /\ CountIn(results', res) = CountIn(results, res) + 1
                /\ v.pc = "forward" <=> ~preferHTTPS
                /\ placed' = placed
          /\ w.pc = "forward" =>
                /\ w.statusCode = 0 \/ ~preferHTTPS
                /\ placed' = placed (+) SetToBag({fwd})
                /\ results' = results

\* the run has the single probe spec https:port, in any case of "https"
SingleHTTPSSpec ==
    /\ Len(probes) = 1
    /\ HasColon(probes[1])
    /\ IsHTTPSWord(SubSeq(probes[1], 1, FirstColon(probes[1]) - 1))

NoHTTPAttempt == \A a \in BagToSet(attempts) : a.scheme # "http"

\* C14: for each target an HTTPS worker takes from the HTTPS queue it probes,
\* then sends the Result https://target exactly when the status is non-zero,
\* then forwards the bare target once onto the HTTP queue exactly when the
\* status is 0 or preferHTTPS is false, the Result first; the HTTP queue gets
\* nothing from an HTTPS worker in any other way. With the single spec
\* https:port, preferHTTPS set and HTTPS probes that answer, no HTTP probe is
\* ever made.
C14_HTTPSWorkerStep ==
    /\ [][\A i \in DOMAIN httpsW : HTTPSWorkerStep(i)]_vars
    /\ [][placed' # placed =>
             \/ enqueued' # enqueued
             \/ \E i \in DOMAIN httpsW :
                   httpsW[i].pc = "forward" /\ httpsW'[i].pc = "recv"]_vars
    /\ []((/\ SingleHTTPSSpec
           /\ preferHTTPS
           /\ \A a \in BagToSet(attempts) : a.statusCode # 0) => NoHTTPAttempt)

C14_Witness ==
    /\ Finished
    /\ SingleHTTPSSpec
    /\ ~preferHTTPS
    /\ Len(input) >= 2
    /\ \E r \in AllResults : r.URL = "https://foo.test:8443"
    /\ CopiesIn([q |-> "http", t |-> "foo.test:8443"], placed) = Len(input)
    /\ ~NoHTTPAttempt

\* the scenario of C14: HTTPS answered on the single https:port spec with
\* preferHTTPS set, and the run is over
C14_ScenarioReached ==
    /\ Finished
    /\ SingleHTTPSSpec
    /\ preferHTTPS
    /\ \E r \in AllResults : r.URL = "https://foo.test:8443"
    /\ NoHTTPAttempt

\* number of Results held by the ResultSet rs
SizeOf(rs) == Cardinality(UNION {{<<c, k>> : k \in 1..Len(rs[c])} : c \in DOMAIN rs})

\* main is at or past its read of the ResultSet (the call of writeJSONFile)
MainReads == mainPC \in {"write", "done"}

\* some worker still holds a Result it has not sent
ResultUnsent ==
    \/ \E i \in DOMAIN httpsW : httpsW[i].pc \in {"probe", "emit"}
    \/ \E j \in DOMAIN httpW : httpW[j].pc \in {"probe", "emit"}

\* C15: the ResultSet changes only in a step in which the output goroutine,
\* inside its receive loop, takes one Result from the Result channel; main
\* reads the ResultSet only once that goroutine has seen the channel closed
\* and has left its loop, when no Result is left to arrive; from then on the
\* ResultSet never changes, so no read overlaps a write.
C15_ResultSetOwnership ==
    /\ [][results' # results =>
             /\ outputPC = "recv" /\ outputPC' = "recv"
             /\ ~outputClosed
             /\ ~MainReads
             /\ SizeOf(results') = SizeOf(results) + 1]_vars
    /\ [](MainReads =>
             /\ outputPC = "done"
             /\ outputClosed
             /\ ~ResultUnsent)
    /\ [][outputPC = "done" => results' = results]_vars
    /\ [][report' # report => mainPC = "write" /\ outputPC = "done"]_vars

C15_Witness ==
    /\ mainPC = "done"
    /\ outputPC = "done"
    /\ SizeOf(results) >= 3
    /\ report # <<>>

\* the moves of an HTTP worker through its loop body
HTTPWorkerMoves ==
    {<<"recv", "probe">>, <<"recv", "done">>, <<"probe", "emit">>,
     <<"probe", "recv">>, <<"emit", "recv">>}

\* the queues as the model records them: what was taken from them, what the
\* input loop still has to send, and whether they are closed
Queues == <<placed, enqueued, pending, httpsClosed, httpClosed>>

\* one step of HTTP worker j, as the state pair (unprimed, primed)
HTTPWorkerStep(j) ==
    LET w == httpW[j]
        v == httpW'[j]
        res == [URL |-> "http://" \o w.url, StatusCode |-> w.statusCode,
                RedirectedURL |-> w.redirectedURL]
    IN  v # w =>
          /\ <<w.pc, v.pc>> \in HTTPWorkerMoves
          /\ w.pc = "recv" /\ v.pc = "probe" =>
                /\ placed' = placed (+) SetToBag({[q |-> "http", t |-> v.url]})
                /\ results' = results
          /\ w.pc = "probe" =>
                /\ v.pc = "emit" <=> v.statusCode # 0
                /\ v.pc = "recv" <=> v.statusCode = 0
                /\ Queues' = Queues
                /\ results' = results
                /\ outputClosed' = outputClosed
          /\ w.pc = "emit" =>
                /\ w.statusCode # 0
                /\ CountIn(results', res) = CountIn(results, res) + 1
                /\ SizeOf(results') = SizeOf(results) + 1
                /\ Queues' = Queues

\* C16: an HTTP worker only takes targets from the HTTP queue, probes them and
\* sends the Result http://target when the status is non-zero; none of its
\* steps puts anything on the HTTPS or the HTTP queue; a probe with status 0
\* changes neither the queues nor the ResultSet, and the worker goes back to
\* take the next target.
C16_HTTPStageTerminal ==
    /\ [][\A j \in DOMAIN httpW : HTTPWorkerStep(j)]_vars
    /\ [](\A r \in AllResults :
             SubSeq(r.URL, 1, 7) = "http://" =>
                 \E a \in BagToSet(attempts) :
                     a.scheme = "http" /\ a.statusCode # 0 /\ a.url = r.URL)

C16_Witness ==
    /\ Finished
    /\ PoolSize(concurrency) = 1
    /\ AttemptsOn("http", "foo.test:8080") = 2
    /\ \A a \in BagToSet(attempts) : a.statusCode = 0
    /\ results = <<>>

\* the Results that workers are sending in the current state
BeingSent ==
    {[URL |-> "https://" \o httpsW[i].url, StatusCode |-> httpsW[i].statusCode,
      RedirectedURL |-> httpsW[i].redirectedURL] :
        i \in {m \in DOMAIN httpsW : httpsW[m].pc = "emit"}}
    \cup
    {[URL |-> "http://" \o httpW[j].url, StatusCode |-> httpW[j].statusCode,
      RedirectedURL |-> httpW[j].redirectedURL] :
        j \in {m \in DOMAIN httpW : httpW[m].pc = "emit"}}

\* the ResultSet new is old with the Result r received last
ReceivedLast(old, new, r) ==
    LET c == r.StatusCode
        before == IF c \in DOMAIN old THEN old[c] ELSE <<>>
    IN  /\ DOMAIN new = DOMAIN old \cup {c}
        /\ \A d \in DOMAIN old \ {c} : new[d] = old[d]
        /\ Len(new[c]) = Len(before) + 1
        /\ \A k \in 1..Len(before) : new[c][k] = before[k]
        /\ new[c][Len(new[c])] = r

\* the URL of an entry of the report of status code c
EntryURL(c, e) == IF c >= 300 /\ c < 400 THEN e.url ELSE e

\* C17: every Result the output goroutine receives goes to the end of the
\* sequence of its status code and moves no Result already there, so each
\* sequence lists its Results in the order of their arrival; the array of the
\* report under that code lists the same Results in the same order.
C17_ArrivalOrder ==
    /\ [][results' # results =>
             \E r \in BeingSent : ReceivedLast(results, results', r)]_vars
    /\ [](mainPC = "done" =>
             \A c \in DOMAIN results :
                 /\ Decimal(c) \in DOMAIN report
                 /\ Len(report[Decimal(c)]) = Len(results[c])
                 /\ \A k \in 1..Len(results[c]) :
                       EntryURL(c, report[Decimal(c)][k]) = results[c][k].URL)

C17_Witness ==
    /\ mainPC = "done"
    /\ 301 \in DOMAIN results
    /\ Len(results[301]) >= 3
    /\ results[301][1].URL = "https://foo.test"
    /\ results[301][2].URL = "http://foo.test"
    /\ results[301][3].URL = "https://foo.test"
    /\ report["301"][1].url = "https://foo.test"
    /\ report["301"][2].url = "http://foo.test"

-----------------------------------------------------------------------------
(* Pool size and default probing properties *)

\* C18: with concurrency below 2 both pools are empty and nothing is ever
\* taken from a queue or probed; if the input loop has at least one target to
\* send, main never gets past its first send (it blocks for ever or panics on
\* a closed channel), so it never reaches the report; if there is nothing to
\* send, the run completes and the ResultSet is empty.
C18_NoWorkers ==
    /\ [](concurrency < 2 =>
             /\ DOMAIN httpsW = {} /\ DOMAIN httpW = {}
             /\ attempts = EmptyBag /\ placed = EmptyBag /\ enqueued = <<>>
             /\ results = <<>>
             /\ AllSends # <<>> =>
                   /\ mainPC \in {"scan", "send"}
                   /\ report = <<>> /\ ~reportWritten)
    /\ (concurrency < 2 /\ AllSends = <<>>) ~> (Finished /\ results = <<>>)

C18_Witness ==
    /\ concurrency = 1
    /\ AllSends # <<>>
    /\ mainPC = "send"
    /\ outputPC = "done"
    /\ panicked

\* the lower-cased hostnames of stdin
InputHosts == {LowerCased[input[k]] : k \in 1..Len(input)}

\* number of lines of stdin that name host h
LinesOf(h) == Cardinality({k \in 1..Len(input) : LowerCased[input[k]] = h})

\* in this run an HTTPS worker forwards what it has probed
Forwarding ==
    \/ ~preferHTTPS
    \/ \E a \in BagToSet(attempts) : a.scheme = "https" /\ a.statusCode = 0

\* number of Results of the ResultSet with URL url
ResultsOnURL(url) == Cardinality({s \in ResultSlots : results[s[1]][s[2]].URL = url})

Lined == enqueued \o pending

\* the sends of default probing for the first k lines of stdin
RECURSIVE DefaultOfLines(_)
DefaultOfLines(k) ==
    IF k = 0 THEN <<>>
    ELSE DefaultOfLines(k - 1)
           \o <<[q |-> "https", t |-> LowerCased[input[k]]],
                [q |-> "http", t |-> LowerCased[input[k]]]>>

BareHostnameLined == \E k \in 1..Len(Lined) : Lined[k].t \in InputHosts

====
